---- MODULE Spec2Model ----
(***************************************************************************)
(* Model of src/vs/editor/browser/viewParts/selectionsGpu/selectionsGpu.ts *)
(*                                                                         *)
(* Two specifications share the variables below.                           *)
(*                                                                         *)
(*   Spec        the view part as it runs: the event handlers              *)
(*               onConfigurationChanged / onCursorStateChanged and the     *)
(*               per-frame entry points prepareRender / render.            *)
(*                                                                         *)
(*   SpecFrames  the private rounded-selection methods                     *)
(*               (_visibleRangesHaveGaps, _enrichVisibleRangesWithStyle,   *)
(*               _getVisibleRangesWithStyle, _actualRenderOneSelection)    *)
(*               applied frame after frame to one selection index, each    *)
(*               returned frame being passed as `previousFrame` to the     *)
(*               next call.  prepareRender does not call them (the loop    *)
(*               that did is commented out, lines 365-379).                *)
(*                                                                         *)
(* Pixel offsets are integers; epsilon = typicalHalfwidthCharacterWidth/4  *)
(* is kept exact by comparing 4*|d| with the character width.              *)
(***************************************************************************)
EXTENDS Integers, Sequences, FiniteSets, TLC

VARIABLES
    _selections,                          \* Range[], line 71
    _roundedSelection,                    \* boolean, line 69
    _typicalHalfwidthCharacterWidth,      \* number, line 70
    _renderResult,                        \* string[] | null, line 72
    _gpuShapes,                           \* registered entries held by the view part, line 67
    _previousFrameVisibleRangesWithStyle, \* per-selection cache field, line 333
    rectangles,                           \* entries alive in rectangleRenderer
    nextEntry,                            \* identity of the next entry register() creates
    viewportData,                         \* line numbers canRender accepts for the last ctx
    lastOp,                               \* the operation that ran last
    visibleRange,                         \* ctx.visibleRange of the last frame call
    _linesVisibleRanges,                  \* the layout query's answer in that call, line 219
    thisFrame,                            \* <<>> or <<frame returned by the last completed call>>
    outcome,                              \* how the last _getVisibleRangesWithStyle call ended
    lookup,                               \* which branch lines 125-151 took for top and bottom
    output2                               \* [inner corners, rest] per viewport line, lines 340-346

vars == << _selections, _roundedSelection, _typicalHalfwidthCharacterWidth,
           _renderResult, _gpuShapes, _previousFrameVisibleRangesWithStyle,
           rectangles, nextEntry, viewportData, lastOp,
           visibleRange, _linesVisibleRanges, thisFrame, outcome, lookup,
           output2 >>

liveVars == << _selections, _renderResult, _gpuShapes,
               _previousFrameVisibleRangesWithStyle, rectangles, nextEntry,
               viewportData >>

frameVars == << visibleRange, _linesVisibleRanges, thisFrame, outcome, lookup,
               output2 >>

-----------------------------------------------------------------------------
(* Bounds and input domains *)

MaxSelections == 2
MaxEntries == 5
MaxRangesPerLine == 2

MaxLineNumber == 2
LineNumbers == 1..MaxLineNumber
Columns == {1, 2}
Lefts == {0, 1, 3}
Widths == {1, 4}
HalfWidths == {4, 6}

-----------------------------------------------------------------------------
(* Types *)

EXTERN == 0
INTERN == 1
FLAT == 2
CornerStyle == {EXTERN, INTERN, FLAT}

NULL == [null |-> TRUE]

HorizontalRange == [left : Lefts, width : Widths]

HorizontalRangeWithStyle(other) ==
    [left |-> other.left, width |-> other.width,
     startStyle |-> NULL, endStyle |-> NULL]

LineVisibleRangesWithStyle(lineNumber, ranges) ==
    [lineNumber |-> lineNumber, ranges |-> ranges]

toStyledRange(item) == HorizontalRangeWithStyle(item)

toStyled(item) ==
    LineVisibleRangesWithStyle(item.lineNumber,
        [j \in 1..Len(item.ranges) |-> toStyledRange(item.ranges[j])])

abs(n) == IF n < 0 THEN -n ELSE n

-----------------------------------------------------------------------------
(* _visibleRangesHaveGaps, lines 106-118 *)

\* a slip: the loop returns after looking at the first line only
_visibleRangesHaveGaps_firstLineOnly(linesVisibleRanges) ==
    /\ Len(linesVisibleRanges) > 0
    /\ Len(linesVisibleRanges[1].ranges) > 1

_visibleRangesHaveGaps(linesVisibleRanges) ==
    \E i \in 1..Len(linesVisibleRanges) :
        Len(linesVisibleRanges[i].ranges) > 1

-----------------------------------------------------------------------------
(* _enrichVisibleRangesWithStyle, lines 120-216 *)

\* a slip: the offsets are compared for equality, without tolerance
LessThanEpsilon_exact(d, typicalHalfwidthCharacterWidth) ==
    d = 0

\* abs(d) < epsilon with epsilon = typicalHalfwidthCharacterWidth / 4 (line 121)
LessThanEpsilon(d, typicalHalfwidthCharacterWidth) ==
    4 * abs(d) < typicalHalfwidthCharacterWidth

\* ranges[0] of a line: NULL stands for the undefined an empty array yields
FirstRange(line) ==
    IF Len(line.ranges) > 0 THEN line.ranges[1] ELSE NULL

\* the loop of lines 129-133: the first entry, scanning upwards from index 0,
\* whose line number matches and whose ranges[0] is truthy
ScanAscending(previousFrame, lineNumber) ==
    LET hits == { i \in 1..Len(previousFrame) :
                    /\ previousFrame[i].lineNumber = lineNumber
                    /\ FirstRange(previousFrame[i]) # NULL }
    IN  IF hits = {} THEN NULL
        ELSE FirstRange(previousFrame[CHOOSE i \in hits : \A j \in hits : i <= j])

\* the loop of lines 138-142: the same, scanning downwards from the last index
ScanDescending(previousFrame, lineNumber) ==
    LET hits == { i \in 1..Len(previousFrame) :
                    /\ previousFrame[i].lineNumber = lineNumber
                    /\ FirstRange(previousFrame[i]) # NULL }
    IN  IF hits = {} THEN NULL
        ELSE FirstRange(previousFrame[CHOOSE i \in hits : \A j \in hits : i >= j])

\* `previousFrame && previousFrame.length > 0 && linesVisibleRanges.length > 0`
\* (line 125); previousFrame is <<>> for null/undefined, <<frame>> otherwise
HasPreviousFrame(linesVisibleRanges, previousFrame) ==
    /\ previousFrame # <<>>
    /\ Len(previousFrame[1]) > 0
    /\ Len(linesVisibleRanges) > 0

\* a slip: the test against viewport.startLineNumber is left out
MatchedTop_ungated(viewport, linesVisibleRanges, previousFrame) ==
    IF ~HasPreviousFrame(linesVisibleRanges, previousFrame) THEN NULL
    ELSE ScanAscending(previousFrame[1], linesVisibleRanges[1].lineNumber)

\* previousFrameTop before the guard of lines 145-147
MatchedTop(viewport, linesVisibleRanges, previousFrame) ==
    IF ~HasPreviousFrame(linesVisibleRanges, previousFrame) THEN NULL
    ELSE LET topLineNumber == linesVisibleRanges[1].lineNumber
         IN  IF topLineNumber = viewport.startLineNumber
             THEN ScanAscending(previousFrame[1], topLineNumber)
             ELSE NULL

\* previousFrameBottom before the guard of lines 148-150
MatchedBottom(viewport, linesVisibleRanges, previousFrame) ==
    IF ~HasPreviousFrame(linesVisibleRanges, previousFrame) THEN NULL
    ELSE LET bottomLineNumber ==
                 linesVisibleRanges[Len(linesVisibleRanges)].lineNumber
         IN  IF bottomLineNumber = viewport.endLineNumber
             THEN ScanDescending(previousFrame[1], bottomLineNumber)
             ELSE NULL

\* a slip: the guards of lines 145-150 are left out
DropUnstyled_unguarded(range) == range

\* `if (previousFrameTop && !previousFrameTop.startStyle) previousFrameTop = null`
DropUnstyled(range) ==
    IF range # NULL /\ range.startStyle = NULL THEN NULL ELSE range

\* previousFrameTop as the classification loop sees it (lines 122-151)
PreviousFrameTop(viewport, linesVisibleRanges, previousFrame) ==
    DropUnstyled(MatchedTop(viewport, linesVisibleRanges, previousFrame))

\* previousFrameBottom as the classification loop sees it (lines 122-151)
PreviousFrameBottom(viewport, linesVisibleRanges, previousFrame) ==
    DropUnstyled(MatchedBottom(viewport, linesVisibleRanges, previousFrame))

\* a slip: the comparison of line 176 is turned around
StartStyleTop_reversed(curLeft, prevLeft, hw) ==
    IF LessThanEpsilon(curLeft - prevLeft, hw) THEN FLAT
    ELSE IF curLeft < prevLeft THEN INTERN
    ELSE EXTERN

\* lines 174-178
StartStyleTop(curLeft, prevLeft, hw) ==
    IF LessThanEpsilon(curLeft - prevLeft, hw) THEN FLAT
    ELSE IF curLeft > prevLeft THEN INTERN
    ELSE EXTERN

\* lines 180-184
EndStyleTop(curRight, prevLeft, prevRight, hw) ==
    IF LessThanEpsilon(curRight - prevRight, hw) THEN FLAT
    ELSE IF prevLeft < curRight /\ curRight < prevRight THEN INTERN
    ELSE EXTERN

\* lines 196-200
StartStyleBottom(curLeft, nextLeft, nextRight, hw) ==
    IF LessThanEpsilon(curLeft - nextLeft, hw) THEN FLAT
    ELSE IF nextLeft < curLeft /\ curLeft < nextRight THEN INTERN
    ELSE EXTERN

\* a slip: line 204 made symmetric with the three other rules
EndStyleBottom_lowerBound(curRight, nextLeft, nextRight, hw) ==
    IF LessThanEpsilon(curRight - nextRight, hw) THEN FLAT
    ELSE IF nextLeft < curRight /\ curRight < nextRight THEN INTERN
    ELSE EXTERN

\* lines 202-206 (nextLeft is in scope and not read)
EndStyleBottom(curRight, nextLeft, nextRight, hw) ==
    IF LessThanEpsilon(curRight - nextRight, hw) THEN FLAT
    ELSE IF curRight < nextRight THEN INTERN
    ELSE EXTERN

\* Reading `.left` of an undefined ranges[0] (lines 156, 171, 193) or `.top` /
\* `.bottom` of a null style (lines 187-188, 209-210) raises a TypeError.
EnrichThrows(linesVisibleRanges, previousFrameTop, previousFrameBottom) ==
    \/ \E i \in 1..Len(linesVisibleRanges) :
           Len(linesVisibleRanges[i].ranges) = 0
    \/ /\ Len(linesVisibleRanges) > 0
       /\ \/ /\ previousFrameTop # NULL
             /\ \/ previousFrameTop.startStyle = NULL
                \/ previousFrameTop.endStyle = NULL
          \/ /\ previousFrameBottom # NULL
             /\ \/ previousFrameBottom.startStyle = NULL
                \/ previousFrameBottom.endStyle = NULL

\* one iteration of the loop of lines 153-215, for a call that does not throw
EnrichLine(i, lvr, previousFrameTop, previousFrameBottom, hw) ==
    LET len == Len(lvr)
        curLineRange == lvr[i].ranges[1]
        curLeft == curLineRange.left
        curRight == curLineRange.left + curLineRange.width
        prevLeft == lvr[i - 1].ranges[1].left
        prevRight == lvr[i - 1].ranges[1].left + lvr[i - 1].ranges[1].width
        nextLeft == lvr[i + 1].ranges[1].left
        nextRight == lvr[i + 1].ranges[1].left + lvr[i + 1].ranges[1].width
        startTop ==
            IF i > 1 THEN StartStyleTop(curLeft, prevLeft, hw)
            ELSE IF previousFrameTop # NULL THEN previousFrameTop.startStyle.top
            ELSE EXTERN
        endTop ==
            IF i > 1 THEN EndStyleTop(curRight, prevLeft, prevRight, hw)
            ELSE IF previousFrameTop # NULL THEN previousFrameTop.endStyle.top
            ELSE EXTERN
        startBottom ==
            IF i + 1 <= len THEN StartStyleBottom(curLeft, nextLeft, nextRight, hw)
            ELSE IF previousFrameBottom # NULL
                 THEN previousFrameBottom.startStyle.bottom
            ELSE EXTERN
        endBottom ==
            IF i + 1 <= len THEN EndStyleBottom(curRight, nextLeft, nextRight, hw)
            ELSE IF previousFrameBottom # NULL
                 THEN previousFrameBottom.endStyle.bottom
            ELSE EXTERN
        styled == [curLineRange EXCEPT
                     !.startStyle = [top |-> startTop, bottom |-> startBottom],
                     !.endStyle = [top |-> endTop, bottom |-> endBottom]]
    IN  [lvr[i] EXCEPT !.ranges = [lvr[i].ranges EXCEPT ![1] = styled]]

\* the lines after the call, given that it returns
_enrichVisibleRangesWithStyle(viewport, linesVisibleRanges, previousFrame, hw) ==
    LET previousFrameTop ==
            PreviousFrameTop(viewport, linesVisibleRanges, previousFrame)
        previousFrameBottom ==
            PreviousFrameBottom(viewport, linesVisibleRanges, previousFrame)
    IN  [i \in 1..Len(linesVisibleRanges) |->
            EnrichLine(i, linesVisibleRanges, previousFrameTop,
                       previousFrameBottom, hw)]

-----------------------------------------------------------------------------
(* _getVisibleRangesWithStyle, lines 218-229 *)

\* `ctx.linesVisibleRangesForRange(selection, true) || []` (line 219); the
\* query's answer is <<>> for null and <<lines>> otherwise
OrEmpty(layout) == IF layout = <<>> THEN <<>> ELSE layout[1]

\* line 220
MapToStyled(answer) ==
    [i \in 1..Len(answer) |-> toStyled(answer[i])]

\* line 223: whether the classifier is called
CallsEnrich(linesVisibleRanges, roundedSelection) ==
    ~_visibleRangesHaveGaps(linesVisibleRanges) /\ roundedSelection

\* whether the call ends in a TypeError instead of returning
GetVisibleRangesThrows(layout, viewport, previousFrame, roundedSelection) ==
    LET linesVisibleRanges == MapToStyled(OrEmpty(layout))
    IN  /\ CallsEnrich(linesVisibleRanges, roundedSelection)
        /\ EnrichThrows(linesVisibleRanges,
               PreviousFrameTop(viewport, linesVisibleRanges, previousFrame),
               PreviousFrameBottom(viewport, linesVisibleRanges, previousFrame))

\* the value the call returns when it returns
_getVisibleRangesWithStyle(layout, viewport, previousFrame, roundedSelection, hw) ==
    LET linesVisibleRanges == MapToStyled(OrEmpty(layout))
    IN  IF CallsEnrich(linesVisibleRanges, roundedSelection)
        THEN _enrichVisibleRangesWithStyle(viewport, linesVisibleRanges,
                                           previousFrame, hw)
        ELSE linesVisibleRanges

\* the branch lines 125-151 took for one boundary
LookupBranch(consulted, matched) ==
    IF ~consulted THEN "none"
    ELSE IF matched = NULL THEN "miss"
    ELSE IF matched.startStyle = NULL THEN "unset"
    ELSE "hit"

LookupOf(layout, viewport, previousFrame, roundedSelection) ==
    LET lvr == MapToStyled(OrEmpty(layout))
        called == CallsEnrich(lvr, roundedSelection)
                    /\ HasPreviousFrame(lvr, previousFrame)
    IN  [top |-> LookupBranch(
                    called /\ lvr[1].lineNumber = viewport.startLineNumber,
                    MatchedTop(viewport, lvr, previousFrame)),
         bottom |-> LookupBranch(
                    called /\ lvr[Len(lvr)].lineNumber = viewport.endLineNumber,
                    MatchedBottom(viewport, lvr, previousFrame))]

-----------------------------------------------------------------------------
(* _actualRenderOneSelection, lines 244-245: the body is empty *)

\* lines 340-346: one ['', ''] per viewport line; a string of pieces is the
\* sequence of its pieces
EmptyOutput(viewport) ==
    [lineIndex \in 1..(viewport.endLineNumber - viewport.startLineNumber + 1)
        |-> << <<>>, <<>> >>]

_actualRenderOneSelection(out, visibleStartLineNumber, hasMultipleSelections, visibleRanges) ==
    out

-----------------------------------------------------------------------------
(* Inputs of a frame *)

Viewports ==
    { v \in [startLineNumber : LineNumbers, endLineNumber : LineNumbers] :
        v.startLineNumber <= v.endLineNumber }

\* the visible ranges of one line, sorted left to right with a gap between
\* one range and the next
RangesOnLine ==
    UNION { { r \in [1..n -> HorizontalRange] :
                \A j \in 1..(n - 1) : r[j].left + r[j].width < r[j + 1].left }
            : n \in 0..MaxRangesPerLine }

Ascending(lineSet) ==
    [k \in 1..Cardinality(lineSet) |->
        CHOOSE x \in lineSet : Cardinality({ y \in lineSet : y < x }) = k - 1]

\* what linesVisibleRangesForRange can answer for a viewport: null, or lines
\* of the viewport from top to bottom
Layouts(viewport) ==
    {<<>>} \cup
    UNION { { << [k \in 1..Cardinality(S) |->
                    [lineNumber |-> Ascending(S)[k],
                     ranges |-> f[Ascending(S)[k]]]] >>
              : f \in [S -> RangesOnLine] }
            : S \in SUBSET (viewport.startLineNumber..viewport.endLineNumber) }

-----------------------------------------------------------------------------
(* Inputs of the event handlers and of prepareRender *)

\* a Range: start before or at end
Ranges ==
    { r \in [startLineNumber : LineNumbers, startColumn : Columns,
             endLineNumber : LineNumbers, endColumn : Columns] :
        \/ r.startLineNumber < r.endLineNumber
        \/ /\ r.startLineNumber = r.endLineNumber
           /\ r.startColumn <= r.endColumn }

SelectionLists ==
    UNION { [1..n -> Ranges] : n \in 1..MaxSelections }

\* Range.isEmpty()
isEmpty(selection) ==
    /\ selection.startLineNumber = selection.endLineNumber
    /\ selection.startColumn = selection.endColumn

\* ViewGpuContext.canRender(options, ctx.viewportData, lineNumber), line 358:
\* decided outside this file; the ctx carries the lines it accepts
canRender(ctxViewportData, lineNumber) == lineNumber \in ctxViewportData

\* rectangleRenderer.register(x, y, width, height, red, green, blue, alpha),
\* line 360: a new entry object
register(entry, x, y, width, height, red, green, blue, alpha) ==
    [entry |-> entry, x |-> x, y |-> y, width |-> width, height |-> height,
     red |-> red, green |-> green, blue |-> blue, alpha |-> alpha]

\* a slip: the call of line 351 is left out
dispose_nothing(alive, shapes) == alive

\* dispose(this._gpuShapes), line 351: every entry leaves the renderer
dispose(alive, shapes) ==
    alive \ { shapes[k] : k \in 1..Len(shapes) }

\* the loop of lines 354-362: the shapes pushed, starting from an empty array
RegisterSelections(selections, ctxViewportData, firstEntry) ==
    LET pushed == { i \in 1..Len(selections) :
                      /\ ~isEmpty(selections[i])
                      /\ canRender(ctxViewportData, selections[i].startLineNumber) }
    IN  [k \in 1..Cardinality(pushed) |->
            LET selection == selections[Ascending(pushed)[k]]
            IN  register(firstEntry + k - 1,
                         selection.startColumn * 10,
                         selection.startLineNumber * 10, 100, 10, 1, 0, 0, 1)]

-----------------------------------------------------------------------------
(* State after construction, lines 67-89 and 333 *)

Init ==
    /\ _selections = <<>>
    /\ _roundedSelection \in BOOLEAN
    /\ _typicalHalfwidthCharacterWidth \in HalfWidths
    /\ _renderResult = NULL
    /\ _gpuShapes = <<>>
    /\ _previousFrameVisibleRangesWithStyle = <<>>
    /\ rectangles = {}
    /\ nextEntry = 1
    /\ viewportData = {}
    /\ lastOp = "constructor"
    /\ visibleRange = NULL
    /\ _linesVisibleRanges = <<>>
    /\ thisFrame = <<>>
    /\ outcome = "none"
    /\ lookup = [top |-> "none", bottom |-> "none"]
    /\ output2 = <<>>

-----------------------------------------------------------------------------
(* Event handlers, lines 93-102 *)

onConfigurationChanged(roundedSelection, typicalHalfwidthCharacterWidth) ==
    /\ _roundedSelection' = roundedSelection
    /\ _typicalHalfwidthCharacterWidth' = typicalHalfwidthCharacterWidth
    /\ lastOp' = "onConfigurationChanged"
    /\ UNCHANGED << liveVars, frameVars >>

onCursorStateChanged(selections) ==
    /\ _selections' = selections
    /\ lastOp' = "onCursorStateChanged"
    /\ UNCHANGED << _roundedSelection, _typicalHalfwidthCharacterWidth,
                    _renderResult, _gpuShapes,
                    _previousFrameVisibleRangesWithStyle, rectangles,
                    nextEntry, viewportData, frameVars >>

-----------------------------------------------------------------------------
(* prepareRender, lines 334-380, and render, lines 382-391 *)

prepareRender(ctxViewportData) ==
    LET shapes == RegisterSelections(_selections, ctxViewportData, nextEntry)
    IN  /\ nextEntry + Len(shapes) <= MaxEntries + 1
        /\ _gpuShapes' = shapes
        /\ rectangles' = dispose(rectangles, _gpuShapes)
                            \cup { shapes[k] : k \in 1..Len(shapes) }
        /\ nextEntry' = nextEntry + Len(shapes)
        /\ viewportData' = ctxViewportData
        /\ lastOp' = "prepareRender"
        /\ UNCHANGED << _selections, _roundedSelection,
                        _typicalHalfwidthCharacterWidth, _renderResult,
                        _previousFrameVisibleRangesWithStyle, frameVars >>

render ==
    /\ lastOp' = "render"
    /\ UNCHANGED << _roundedSelection, _typicalHalfwidthCharacterWidth,
                    liveVars, frameVars >>

Next ==
    \/ \E r \in BOOLEAN, w \in HalfWidths : onConfigurationChanged(r, w)
    \/ \E selections \in SelectionLists : onCursorStateChanged(selections)
    \/ \E ctxViewportData \in SUBSET LineNumbers : prepareRender(ctxViewportData)
    \/ render

Spec == Init /\ [][Next]_vars

-----------------------------------------------------------------------------
(* One frame of one selection: the calls of lines 373-375 *)

Frame(viewport, layout) ==
    LET throws == GetVisibleRangesThrows(layout, viewport, thisFrame,
                                         _roundedSelection)
        visibleRangesWithStyle ==
            _getVisibleRangesWithStyle(layout, viewport, thisFrame,
                _roundedSelection, _typicalHalfwidthCharacterWidth)
    IN  /\ visibleRange' = viewport
        /\ _linesVisibleRanges' = OrEmpty(layout)
        /\ lookup' = LookupOf(layout, viewport, thisFrame, _roundedSelection)
        /\ lastOp' = "frame"
        /\ IF throws
           THEN /\ outcome' = "threw"
                /\ thisFrame' = thisFrame
                /\ output2' = EmptyOutput(viewport)
           ELSE /\ outcome' =
                      IF CallsEnrich(MapToStyled(OrEmpty(layout)), _roundedSelection)
                      THEN "enriched" ELSE "plain"
                /\ thisFrame' = << visibleRangesWithStyle >>
                /\ output2' = _actualRenderOneSelection(EmptyOutput(viewport),
                                  viewport.startLineNumber, FALSE,
                                  visibleRangesWithStyle)
        /\ UNCHANGED << _roundedSelection, _typicalHalfwidthCharacterWidth,
                        liveVars >>

NextFrames ==
    \/ \E r \in BOOLEAN, w \in HalfWidths : onConfigurationChanged(r, w)
    \/ \E viewport \in Viewports : \E layout \in Layouts(viewport) :
           Frame(viewport, layout)

SpecFrames == Init /\ [][NextFrames]_vars

-----------------------------------------------------------------------------
(* Vocabulary of the properties below *)

\* the state right after a frame call that ended the given way
AfterFrame(how) == lastOp = "frame" /\ outcome = how

\* the frame the last completed call returned
Returned == thisFrame[1]

Near(x, y) ==
    4 * (IF x < y THEN y - x ELSE x - y) < _typicalHalfwidthCharacterWidth

RightOf(range) == range.left + range.width

IsEdgeStyle(style) ==
    /\ style # NULL
    /\ style.top \in CornerStyle
    /\ style.bottom \in CornerStyle

Unstyled(range) == range.startStyle = NULL /\ range.endStyle = NULL

AllExtern(range) ==
    /\ IsEdgeStyle(range.startStyle)
    /\ IsEdgeStyle(range.endStyle)
    /\ range.startStyle.top = EXTERN
    /\ range.startStyle.bottom = EXTERN
    /\ range.endStyle.top = EXTERN
    /\ range.endStyle.bottom = EXTERN

HasGapLine(frame) == \E i \in 1..Len(frame) : Len(frame[i].ranges) >= 2

\* the styled first ranges a previous frame holds for a line number
CachedStyles(previousFrame, lineNumber) ==
    IF previousFrame = <<>> THEN {}
    ELSE { previousFrame[1][i].ranges[1] :
             i \in { j \in 1..Len(previousFrame[1]) :
                       /\ previousFrame[1][j].lineNumber = lineNumber
                       /\ Len(previousFrame[1][j].ranges) > 0
                       /\ previousFrame[1][j].ranges[1].startStyle # NULL } }

-----------------------------------------------------------------------------
(* C2 *)

\* C2 as stated: when some visible line of the selection has two or more
\* ranges, every returned range carries EXTERN on all four corners.
C2_GapsGiveExternCorners ==
    (lastOp = "frame" /\ outcome \in {"plain", "enriched"} /\ HasGapLine(Returned))
        => \A i \in 1..Len(Returned) :
               \A j \in 1..Len(Returned[i].ranges) :
                   AllExtern(Returned[i].ranges[j])

\* C2 amended: when some visible line of the selection has two or more
\* ranges, every returned range has startStyle and endStyle unset (null): no
\* corner is classified, whatever the viewport and the previous frame are.
C2_GapsLeaveStylesUnset ==
    (lastOp = "frame" /\ outcome \in {"plain", "enriched"} /\ HasGapLine(Returned))
        => \A i \in 1..Len(Returned) :
               \A j \in 1..Len(Returned[i].ranges) :
                   Unstyled(Returned[i].ranges[j])

\* rounding is on, the first line has one range and the second line two
C2_Witness ==
    /\ AfterFrame("plain")
    /\ _roundedSelection
    /\ Len(Returned) = 2
    /\ Len(Returned[1].ranges) = 1
    /\ Len(Returned[2].ranges) = 2
    /\ Unstyled(Returned[1].ranges[1])

-----------------------------------------------------------------------------
(* C3 *)

\* C3: whatever geometry the layout query returns, _getVisibleRangesWithStyle
\* returns normally.
C3_AlwaysReturnsNormally == outcome # "threw"

-----------------------------------------------------------------------------
(* C7 *)

\* C7: after classification, adjacent lines whose left offsets differ by less
\* than epsilon have FLAT on the facing start corners, and adjacent lines whose
\* right offsets differ by less than epsilon have FLAT on the facing end
\* corners.
C7_FlatAdjacency ==
    AfterFrame("enriched")
        => \A i \in 1..(Len(Returned) - 1) :
               LET upper == Returned[i].ranges[1]
                   lower == Returned[i + 1].ranges[1]
               IN  /\ Near(upper.left, lower.left)
                        => /\ upper.startStyle.bottom = FLAT
                           /\ lower.startStyle.top = FLAT
                   /\ Near(RightOf(upper), RightOf(lower))
                        => /\ upper.endStyle.bottom = FLAT
                           /\ lower.endStyle.top = FLAT

\* left offsets one pixel apart and right offsets three apart, epsilon 1.5
C7_Witness ==
    /\ AfterFrame("enriched")
    /\ Len(Returned) = 2
    /\ Returned[1].ranges[1].left + 1 = Returned[2].ranges[1].left
    /\ RightOf(Returned[1].ranges[1]) = RightOf(Returned[2].ranges[1]) + 2
    /\ Returned[1].ranges[1].startStyle.bottom = FLAT
    /\ Returned[2].ranges[1].startStyle.top = FLAT
    /\ Returned[2].ranges[1].endStyle.top # FLAT

-----------------------------------------------------------------------------
(* C8 *)

\* C8: for a line with a line above it, startStyle.top is INTERN when its left
\* offset exceeds the upper line's by at least epsilon, and EXTERN when it is
\* below the upper line's by at least epsilon.
C8_InternDirection ==
    AfterFrame("enriched")
        => \A i \in 2..Len(Returned) :
               LET curLeft == Returned[i].ranges[1].left
                   prevLeft == Returned[i - 1].ranges[1].left
                   top == Returned[i].ranges[1].startStyle.top
               IN  /\ (curLeft > prevLeft /\ ~Near(curLeft, prevLeft))
                        => top = INTERN
                   /\ (curLeft < prevLeft /\ ~Near(curLeft, prevLeft))
                        => top = EXTERN

\* three lines are not needed: line 2 indented by three pixels under line 1
C8_Witness ==
    /\ AfterFrame("enriched")
    /\ Len(Returned) = 2
    /\ Returned[2].ranges[1].left = Returned[1].ranges[1].left + 3
    /\ Returned[2].ranges[1].startStyle.top = INTERN

-----------------------------------------------------------------------------
(* C9 *)

\* C9: endStyle.top of a line with a line above is FLAT when the right offsets
\* are within epsilon, else INTERN exactly when prevLeft < curRight < prevRight,
\* else EXTERN; endStyle.bottom of a line with a line below is FLAT when the
\* right offsets are within epsilon, else INTERN exactly when
\* curRight < nextRight (also when curRight <= nextLeft), else EXTERN.
C9_RightEdgeRules ==
    AfterFrame("enriched")
        => /\ \A i \in 2..Len(Returned) :
                  LET curRight == RightOf(Returned[i].ranges[1])
                      prevLeft == Returned[i - 1].ranges[1].left
                      prevRight == RightOf(Returned[i - 1].ranges[1])
                  IN  Returned[i].ranges[1].endStyle.top =
                          IF Near(curRight, prevRight) THEN FLAT
                          ELSE IF prevLeft < curRight /\ curRight < prevRight
                               THEN INTERN
                          ELSE EXTERN
           /\ \A i \in 1..(Len(Returned) - 1) :
                  LET curRight == RightOf(Returned[i].ranges[1])
                      nextRight == RightOf(Returned[i + 1].ranges[1])
                  IN  Returned[i].ranges[1].endStyle.bottom =
                          IF Near(curRight, nextRight) THEN FLAT
                          ELSE IF curRight < nextRight THEN INTERN
                          ELSE EXTERN

\* the upper line ends left of where the lower line starts, and its bottom
\* right corner is INTERN all the same
C9_Witness ==
    /\ AfterFrame("enriched")
    /\ Len(Returned) = 2
    /\ RightOf(Returned[1].ranges[1]) < Returned[2].ranges[1].left
    /\ Returned[1].ranges[1].endStyle.bottom = INTERN
    /\ Returned[2].ranges[1].endStyle.top = EXTERN

-----------------------------------------------------------------------------
(* C1 *)

\* C1 as stated: the previous frame's styles are used for the first line's top
\* corners if and only if its number equals viewport.startLineNumber, and for
\* the last line's bottom corners if and only if its number equals
\* viewport.endLineNumber.
C1_BorrowIffAtViewportEdge ==
    (AfterFrame("enriched") /\ Len(Returned) > 0)
        => /\ (lookup.top = "hit")
                <=> (Returned[1].lineNumber = visibleRange.startLineNumber)
           /\ (lookup.bottom = "hit")
                <=> (Returned[Len(Returned)].lineNumber = visibleRange.endLineNumber)

\* C1 amended: the first line's top corners are the previous frame's if and
\* only if its number equals viewport.startLineNumber and the previous frame
\* holds a styled first range for that line number (likewise the last line's
\* bottom corners with viewport.endLineNumber); any other first/last line gets
\* EXTERN on those corners, and the corners of a line facing a neighbour are
\* what they are without any previous frame.
C1_BoundaryBorrowGating ==
    [][ (lastOp' = "frame" /\ outcome' = "enriched" /\ Len(thisFrame'[1]) > 0)
          => LET lines == thisFrame'[1]
                 len == Len(lines)
                 first == lines[1].ranges[1]
                 last == lines[len].ranges[1]
                 topCached == CachedStyles(thisFrame, lines[1].lineNumber)
                 bottomCached == CachedStyles(thisFrame, lines[len].lineNumber)
                 alone == _enrichVisibleRangesWithStyle(visibleRange',
                              MapToStyled(_linesVisibleRanges'), <<>>,
                              _typicalHalfwidthCharacterWidth)
             IN  /\ IF /\ lines[1].lineNumber = visibleRange'.startLineNumber
                       /\ topCached # {}
                    THEN \E c \in topCached :
                             /\ first.startStyle.top = c.startStyle.top
                             /\ first.endStyle.top = c.endStyle.top
                    ELSE /\ first.startStyle.top = EXTERN
                         /\ first.endStyle.top = EXTERN
                 /\ IF /\ lines[len].lineNumber = visibleRange'.endLineNumber
                       /\ bottomCached # {}
                    THEN \E c \in bottomCached :
                             /\ last.startStyle.bottom = c.startStyle.bottom
                             /\ last.endStyle.bottom = c.endStyle.bottom
                    ELSE /\ last.startStyle.bottom = EXTERN
                         /\ last.endStyle.bottom = EXTERN
                 /\ \A i \in 2..len :
                        /\ lines[i].ranges[1].startStyle.top =
                               alone[i].ranges[1].startStyle.top
                        /\ lines[i].ranges[1].endStyle.top =
                               alone[i].ranges[1].endStyle.top
                 /\ \A i \in 1..(len - 1) :
                        /\ lines[i].ranges[1].startStyle.bottom =
                               alone[i].ranges[1].startStyle.bottom
                        /\ lines[i].ranges[1].endStyle.bottom =
                               alone[i].ranges[1].endStyle.bottom
      ]_vars

\* the viewport has scrolled down to the lower line of the previous frame:
\* that line is now the first one, and its top corners are the ones it had
\* under its neighbour (INTERN cannot arise otherwise on a line with no line
\* above)
C1_Witness ==
    /\ AfterFrame("enriched")
    /\ Len(Returned) = 1
    /\ Returned[1].lineNumber = visibleRange.startLineNumber
    /\ lookup.top = "hit"
    /\ Returned[1].ranges[1].startStyle.top = INTERN
    /\ Returned[1].ranges[1].endStyle.top = FLAT

-----------------------------------------------------------------------------
(* C4 *)

\* C4: frame after frame, a frame with one range on every line is classified
\* when rounding is on, whatever the previous frame holds; a boundary line for
\* which the previous frame holds no styled range (no previous frame, no line
\* of that number, or a range whose style is unset) gets EXTERN on the
\* boundary corners; and every range of a classified frame has both styles
\* set, all four corners being EXTERN, INTERN or FLAT.
C4_MissFallsBackToExtern ==
    [][ (lastOp' = "frame")
          => LET lines == thisFrame'[1]
                 len == Len(lines)
             IN  /\ ( /\ _roundedSelection
                      /\ \A i \in 1..Len(_linesVisibleRanges') :
                             Len(_linesVisibleRanges'[i].ranges) = 1 )
                        => outcome' = "enriched"
                 /\ (outcome' = "enriched")
                        => /\ \A i \in 1..len :
                                  /\ Len(lines[i].ranges) = 1
                                  /\ IsEdgeStyle(lines[i].ranges[1].startStyle)
                                  /\ IsEdgeStyle(lines[i].ranges[1].endStyle)
                           /\ ( /\ len > 0
                                /\ CachedStyles(thisFrame, lines[1].lineNumber) = {} )
                                  => /\ lines[1].ranges[1].startStyle.top = EXTERN
                                     /\ lines[1].ranges[1].endStyle.top = EXTERN
                           /\ ( /\ len > 0
                                /\ CachedStyles(thisFrame, lines[len].lineNumber) = {} )
                                  => /\ lines[len].ranges[1].startStyle.bottom = EXTERN
                                     /\ lines[len].ranges[1].endStyle.bottom = EXTERN
      ]_vars

\* both lines sit on the viewport's edges; the previous frame has the first
\* line with its style unset and lacks the second
C4_Witness ==
    /\ AfterFrame("enriched")
    /\ Len(Returned) = 2
    /\ lookup = [top |-> "unset", bottom |-> "miss"]
    /\ Returned[1].ranges[1].startStyle.top = EXTERN
    /\ Returned[1].ranges[1].endStyle.top = EXTERN
    /\ Returned[2].ranges[1].startStyle.bottom = EXTERN
    /\ Returned[2].ranges[1].endStyle.bottom = EXTERN
    /\ Returned[2].ranges[1].startStyle.top = INTERN

-----------------------------------------------------------------------------
(* C5 *)

\* C5: after every prepareRender the cache holds one entry per selection
\* index, the frame computed for that selection, null for an empty selection.
C5_CacheHoldsThisFrame ==
    lastOp = "prepareRender"
        => /\ Len(_previousFrameVisibleRangesWithStyle) = Len(_selections)
           /\ \A i \in 1..Len(_selections) :
                  isEmpty(_selections[i])
                      <=> (_previousFrameVisibleRangesWithStyle[i] = NULL)

-----------------------------------------------------------------------------
(* C6 *)

HasInternCorner(range) ==
    \/ range.startStyle.top = INTERN
    \/ range.startStyle.bottom = INTERN
    \/ range.endStyle.top = INTERN
    \/ range.endStyle.bottom = INTERN

\* C6: for a line with an INTERN corner, the output prepared for the line
\* (inner corners, then the rest) starts with the inner-corner pieces, a
\* highlight piece followed by its background cutout, and the body pieces
\* come after them.
C6_InnerCornersPrecedeBody ==
    AfterFrame("enriched")
        => \A i \in 1..Len(Returned) :
               HasInternCorner(Returned[i].ranges[1])
                   => LET lineIndex == Returned[i].lineNumber
                                         - visibleRange.startLineNumber + 1
                          prepared == output2[lineIndex][1] \o output2[lineIndex][2]
                      IN  \E k \in 2..(Len(prepared) - 1) :
                              /\ \A n \in 1..k : prepared[n].piece # "body"
                              /\ prepared[1].piece = "selection"
                              /\ prepared[2].piece = "background"
                              /\ \A n \in (k + 1)..Len(prepared) :
                                     prepared[n].piece = "body"

-----------------------------------------------------------------------------
(* C10 *)

\* the indexes of the selections prepareRender registers a rectangle for
Drawn ==
    { i \in 1..Len(_selections) :
        /\ ~isEmpty(_selections[i])
        /\ _selections[i].startLineNumber \in viewportData }

\* C10: at the end of each prepareRender the rectangles alive in the renderer
\* are exactly the entries of _gpuShapes, which are pairwise distinct, one per
\* non-empty selection canRender accepts, in selection order.
C10_ShapesAreTheLiveRectangles ==
    lastOp = "prepareRender"
        => /\ rectangles = { _gpuShapes[k] : k \in 1..Len(_gpuShapes) }
           /\ Cardinality(rectangles) = Len(_gpuShapes)
           /\ Len(_gpuShapes) = Cardinality(Drawn)
           /\ \A k \in 1..Len(_gpuShapes) :
                  \E i \in Drawn :
                      /\ Cardinality({ j \in Drawn : j < i }) = k - 1
                      /\ _gpuShapes[k].x = _selections[i].startColumn * 10
                      /\ _gpuShapes[k].y = _selections[i].startLineNumber * 10

\* a second prepareRender: entries 1 and 2 were registered and disposed, the
\* renderer holds only the one rectangle of this frame
C10_Witness ==
    /\ lastOp = "prepareRender"
    /\ Len(_selections) = 2
    /\ Len(_gpuShapes) = 1
    /\ _gpuShapes[1].entry = 3
    /\ ~isEmpty(_selections[1])
    /\ ~isEmpty(_selections[2])
    /\ rectangles = { _gpuShapes[1] }

====
